---- MODULE Spec2Model ----
(***************************************************************************)
(* gtasks (package gtasks, task.go): Task, the trigger / execute / cancel  *)
(* state machine, its completion fan-out (Subscribe / exec), the channel   *)
(* adapter Wrap, and the Runner registry.                                  *)
(*                                                                         *)
(* Go channels are modelled by what the runtime does: a channel has a      *)
(* capacity, a number of buffered values and a closed flag; a receiver     *)
(* that finds nothing ready parks, and a later send, close or cancel       *)
(* hands over to a parked receiver in the same step.  A panic that is not  *)
(* recovered (close of a closed channel, send on a closed channel) aborts  *)
(* the process: panic names it and nothing moves any more.                 *)
(***************************************************************************)
EXTENDS Naturals, Sequences, FiniteSets, TLC

\* ---------------------------------------------------------------- bounds
MaxTasks == 2      \* Task objects that NewTask / Runner.Add may construct
MaxProcs == 2      \* calls of Task.Run, each on its own goroutine
MaxChans == 2      \* channels that make() may allocate
MaxExecs == 2      \* callback executions counted per Task
MaxSends == 2      \* values the callers send on one channel
MaxNow   == 1      \* goroutines started by Now() per Task
SoloTasks == 1     \* Tasks in the specifications about one Task
SoloChans == 1     \* caller-made channels in those specifications

Tasks == 1..MaxTasks
Procs == 1..MaxProcs
Chans == 1..MaxChans
Names == {"t1", "t2"}
NIL   == 0

VARIABLES
  ntasks,      \* Tasks 1..ntasks have been constructed (NewTask)
  cancelchan,  \* Task.cancelchan: "open" or "closed"
  after,       \* Task.after: a channel, or NIL
  listeners,   \* Task.listeners: sequence of outlet channels
  once,        \* Task.once
  running,     \* Task.running
  nchans,      \* channels 1..nchans have been made
  chans,       \* channel state: [kind, cap, len, closed, arrived]
  fwd,         \* Wrap's forwarding goroutine per wrapped source: [out, pc]
  nowq,        \* Now(): goroutines that still have to complete their send
  pc,          \* per goroutine in Task.Run: position
  rt,          \* per goroutine in Task.Run: the Task (NIL when idle)
  pidx,        \* per goroutine: index into listeners during exec's loop
  tasks,       \* Runner.tasks: name -> Task (NIL when absent)
  mu,          \* Runner.mu between two methods: "unlocked" or "locked"
  shared,      \* a caller holds the map that Runner.All() returned
  seen,        \* history: the content of that map when All() returned
  panic,       \* "none", or the panic that has aborted the process
  pexec,       \* history, per Run() call: callback invocations
  psig,        \* history, per Run() call: values received on t.after
  viaCancel,   \* history, per Run() call: returned through the cancel case
  nsent,       \* history: values the callers sent, per channel
  nowCalls,    \* history: goroutines started by Now(), per Task
  nowDone,     \* history: Now() goroutines whose send completed, per Task
  nowSent,     \* history: values the Now() goroutines sent, per channel
  cancelFirst, \* history: Cancel() was invoked with nothing yet arrived on t.after
  midExec      \* history, per Run() call: Cancel() was invoked during its callback

taskVars == <<ntasks, cancelchan, after, listeners, once, running>>
chanVars == <<nchans, chans, fwd, nowq>>
procVars == <<pc, rt, pidx>>
histVars == <<pexec, psig, viaCancel, nsent, nowCalls, nowDone, nowSent, cancelFirst,
              midExec>>
lockVars == <<mu, shared, seen>>
vars == <<taskVars, chanVars, procVars, tasks, lockVars, panic, histVars>>

\* A channel that has not been made, and a source that has not been wrapped.
NoChan == [kind |-> "none", cap |-> 0, len |-> 0, closed |-> FALSE, arrived |-> FALSE]
NoFwd  == [out |-> NIL, pc |-> "none"]

\* New() and the state before any Task or channel exists.
Init ==
  /\ ntasks = 0
  /\ cancelchan = [t \in Tasks |-> "open"]
  /\ after = [t \in Tasks |-> NIL]
  /\ listeners = [t \in Tasks |-> << >>]
  /\ once = [t \in Tasks |-> FALSE]
  /\ running = [t \in Tasks |-> FALSE]
  /\ nchans = 0
  /\ chans = [c \in Chans |-> NoChan]
  /\ fwd = [c \in Chans |-> NoFwd]
  /\ nowq = [t \in Tasks |-> 0]
  /\ pc = [p \in Procs |-> "idle"]
  /\ rt = [p \in Procs |-> NIL]
  /\ pidx = [p \in Procs |-> 0]
  /\ tasks = [n \in Names |-> NIL]
  /\ mu = "unlocked"
  /\ shared = FALSE
  /\ seen = [n \in Names |-> NIL]
  /\ panic = "none"
  /\ pexec = [p \in Procs |-> 0]
  /\ psig = [p \in Procs |-> 0]
  /\ viaCancel = [p \in Procs |-> FALSE]
  /\ nsent = [c \in Chans |-> 0]
  /\ nowCalls = [t \in Tasks |-> 0]
  /\ nowDone = [t \in Tasks |-> 0]
  /\ nowSent = [c \in Chans |-> 0]
  /\ cancelFirst = [t \in Tasks |-> FALSE]
  /\ midExec = [p \in Procs |-> FALSE]

\* ------------------------------------------------------------- helpers
Made(t) == t \in 1..ntasks
MadeChan(c) == c \in 1..nchans

\* Goroutines inside Run() of Task t.
RunsOf(t) == {p \in Procs : rt[p] = t}

\* Goroutines parked in Run's select, waiting on channel c as their t.after.
ParkedOn(c) == {p \in Procs : pc[p] = "parked" /\ after[rt[p]] = c}

RECURSIVE SumOver(_, _)
SumOver(f, S) ==
  IF S = {} THEN 0
  ELSE LET x == CHOOSE y \in S : TRUE IN f[x] + SumOver(f, S \ {x})

\* Callback invocations of Task t, over all its Run() calls.
Execs(t) == SumOver(pexec, RunsOf(t))

\* The executions Task t is already committed to, against the cap MaxExecs.
Budget(t) ==
  Execs(t) + Cardinality({p \in RunsOf(t) : pc[p] \in {"parked", "exec"}}) < MaxExecs

\* A channel operation that can complete at once: a value is buffered, or the
\* channel is closed (a receive from a closed channel returns the zero value).
RecvReady(c) == chans[c].len > 0 \/ chans[c].closed
\* A Now() goroutine blocked in its send on the unbuffered channel c.
NowSenders(c) == {t \in Tasks : after[t] = c /\ nowq[t] > 0}

\* chansend: the value goes to a parked receiver if there is one (it will run
\* exec), into the buffer otherwise.  pcBase is pc with the sender's own move.
CanSend(c) == ParkedOn(c) # {} \/ chans[c].len < chans[c].cap
Send(c, pcBase) ==
  IF ParkedOn(c) # {}
  THEN \E q \in ParkedOn(c) :
         /\ pc' = [pcBase EXCEPT ![q] = "exec"]
         /\ psig' = [psig EXCEPT ![q] = @ + 1]
         /\ chans' = [chans EXCEPT ![c].arrived = TRUE]
  ELSE /\ pc' = pcBase
       /\ psig' = psig
       /\ chans' = [chans EXCEPT ![c].len = @ + 1, ![c].arrived = TRUE]

\* closechan: every parked receiver is released with the zero value, ok = false.
Close(c, pcBase) ==
  /\ chans' = [chans EXCEPT ![c].closed = TRUE, ![c].arrived = TRUE]
  /\ pc' = [p \in Procs |-> IF p \in ParkedOn(c) THEN "exec" ELSE pcBase[p]]

\* ------------------------------------------------- callers' channels
\* make(chan interface{}, k) or make(chan T, k): a source the caller owns.
MakeChan(kind, k) ==
  /\ panic = "none"
  /\ nchans < MaxChans
  /\ nchans' = nchans + 1
  /\ chans' = [chans EXCEPT ![nchans + 1] = [NoChan EXCEPT !.kind = kind, !.cap = k]]
  /\ UNCHANGED <<taskVars, fwd, nowq, procVars, tasks, lockVars, panic, histVars>>

\* The caller sends one value on a source it owns, when the send can complete:
\* a receiver is parked (for a wrapped source: the forwarder is in Recv) or
\* the buffer has room.
UserSend(c) ==
  /\ panic = "none"
  /\ MadeChan(c)
  /\ chans[c].kind \in {"iface", "typed"}
  /\ ~chans[c].closed
  /\ nsent[c] < MaxSends
  /\ nsent' = [nsent EXCEPT ![c] = @ + 1]
  /\ IF chans[c].kind = "typed" /\ chans[c].cap = 0
     THEN /\ fwd[c].pc = "recv"
          /\ fwd' = [fwd EXCEPT ![c].pc = "send"]
          /\ chans' = [chans EXCEPT ![c].arrived = TRUE]
          /\ UNCHANGED <<pc, psig>>
     ELSE /\ CanSend(c)
          /\ Send(c, pc)
          /\ fwd' = fwd
  /\ UNCHANGED <<taskVars, nchans, nowq, rt, pidx, tasks, lockVars, panic,
                 pexec, viaCancel, nowCalls, nowDone, nowSent, cancelFirst,
                 midExec>>

\* The caller closes a source it owns.
UserClose(c) ==
  /\ panic = "none"
  /\ MadeChan(c)
  /\ chans[c].kind \in {"iface", "typed"}
  /\ ~chans[c].closed
  /\ Close(c, pc)
  /\ UNCHANGED <<taskVars, nchans, fwd, nowq, rt, pidx, tasks, lockVars, panic, histVars>>

\* ------------------------------------------------------------ Wrap
\* Wrap(ch): a channel whose element type is an interface is returned as it
\* is; for any other element type a fresh unbuffered realChan is made and a
\* forwarding goroutine is started.  WrapOut is the channel returned.
WrapsDirect(c) == chans[c].kind \in {"iface", "outlet", "real"}
WrapOut(c) == IF WrapsDirect(c) THEN c ELSE nchans + 1
Wrap(c) ==
  IF WrapsDirect(c)
  THEN UNCHANGED <<nchans, chans, fwd>>
  ELSE /\ nchans < MaxChans
       /\ fwd[c].pc = "none"
       /\ nchans' = nchans + 1
       /\ chans' = [chans EXCEPT ![nchans + 1] = [NoChan EXCEPT !.kind = "real"]]
       /\ fwd' = [fwd EXCEPT ![c] = [out |-> nchans + 1, pc |-> "recv"]]

\* The forwarder's x, ok := v.Recv(): takes a buffered value; on a closed and
\* drained source it closes realChan and returns.
FwdRecv(c) ==
  /\ panic = "none"
  /\ fwd[c].pc = "recv"
  /\ RecvReady(c)
  /\ IF chans[c].len > 0
     THEN /\ chans' = [chans EXCEPT ![c].len = @ - 1]
          /\ fwd' = [fwd EXCEPT ![c].pc = "send"]
          /\ pc' = pc
     ELSE /\ Close(fwd[c].out, pc)
          /\ fwd' = [fwd EXCEPT ![c].pc = "exit"]
  /\ UNCHANGED <<taskVars, nchans, nowq, rt, pidx, tasks, lockVars, panic, histVars>>

\* FwdSend with a blocking send, realChan <- x: it waits for a receiver.
FwdSendBlocking(c) ==
  /\ panic = "none"
  /\ fwd[c].pc = "send"
  /\ ParkedOn(fwd[c].out) # {}
  /\ fwd' = [fwd EXCEPT ![c].pc = "recv"]
  /\ Send(fwd[c].out, pc)
  /\ UNCHANGED <<taskVars, nchans, nowq, rt, pidx, tasks, lockVars, panic,
                 pexec, viaCancel, nsent, nowCalls, nowDone, nowSent, cancelFirst,
                 midExec>>

\* FwdSend with realChan made with a buffer of one: a value that finds no
\* receiver is kept when the buffer has room.
FwdSendBuffered(c) ==
  /\ panic = "none"
  /\ fwd[c].pc = "send"
  /\ fwd' = [fwd EXCEPT ![c].pc = "recv"]
  /\ IF ParkedOn(fwd[c].out) # {} \/ chans[fwd[c].out].len < 1
     THEN Send(fwd[c].out, pc)
     ELSE UNCHANGED <<pc, psig, chans>>
  /\ UNCHANGED <<taskVars, nchans, nowq, rt, pidx, tasks, lockVars, panic,
                 pexec, viaCancel, nsent, nowCalls, nowDone, nowSent, cancelFirst,
                 midExec>>

\* The forwarder's select { case realChan <- x: default: }: the value is
\* handed to a parked receiver, or dropped when there is none.
FwdSend(c) ==
  /\ panic = "none"
  /\ fwd[c].pc = "send"
  /\ fwd' = [fwd EXCEPT ![c].pc = "recv"]
  /\ IF ParkedOn(fwd[c].out) # {}
     THEN Send(fwd[c].out, pc)
     ELSE UNCHANGED <<pc, psig, chans>>
  /\ UNCHANGED <<taskVars, nchans, nowq, rt, pidx, tasks, lockVars, panic,
                 pexec, viaCancel, nsent, nowCalls, nowDone, nowSent, cancelFirst,
                 midExec>>

\* ------------------------------------------------------------ Task
\* NewTask(f): cancelchan made open, no listeners, after nil, once false.
NewTask ==
  /\ panic = "none"
  /\ ntasks < MaxTasks
  /\ ntasks' = ntasks + 1
  /\ UNCHANGED <<cancelchan, after, listeners, once, running, chanVars, procVars,
                 tasks, lockVars, panic, histVars>>

\* A Task is configured (After, Once, Subscribe) before its Run is started.
Fresh(t) == Made(t) /\ RunsOf(t) = {}

\* t.After(c): t.after = Wrap(c).
After(t, c) ==
  /\ panic = "none"
  /\ Fresh(t) /\ MadeChan(c)
  /\ after[t] # WrapOut(c)
  /\ Wrap(c)
  /\ after' = [after EXCEPT ![t] = WrapOut(c)]
  /\ cancelFirst' = [cancelFirst EXCEPT ![t] = FALSE]
  /\ UNCHANGED <<midExec, ntasks, cancelchan, listeners, once, running, nowq, procVars,
                 tasks, lockVars, panic, pexec, psig, viaCancel, nsent, nowCalls, nowDone, nowSent>>

\* t.Once()
Once(t) ==
  /\ panic = "none"
  /\ Fresh(t)
  /\ ~once[t]
  /\ once' = [once EXCEPT ![t] = TRUE]
  /\ UNCHANGED <<ntasks, cancelchan, after, listeners, running, chanVars, procVars,
                 tasks, lockVars, panic, histVars>>

\* t.Subscribe(): a fresh outlet of capacity 1, appended to t.listeners.
Subscribe(t) ==
  /\ panic = "none"
  /\ Fresh(t)
  /\ nchans < MaxChans
  /\ nchans' = nchans + 1
  /\ chans' = [chans EXCEPT ![nchans + 1] = [NoChan EXCEPT !.kind = "outlet", !.cap = 1]]
  /\ listeners' = [listeners EXCEPT ![t] = Append(@, nchans + 1)]
  /\ UNCHANGED <<ntasks, cancelchan, after, once, running, fwd, nowq, procVars,
                 tasks, lockVars, panic, histVars>>

\* t.Now(): with a trigger installed, starts a goroutine that will send one
\* value on t.after; without one, nothing.
Now(t) ==
  /\ panic = "none"
  /\ Made(t)
  /\ IF after[t] # NIL
     THEN /\ nowCalls[t] < MaxNow
          /\ nowCalls' = [nowCalls EXCEPT ![t] = @ + 1]
          /\ nowq' = [nowq EXCEPT ![t] = @ + 1]
     ELSE UNCHANGED <<nowCalls, nowq>>
  /\ UNCHANGED <<taskVars, nchans, chans, fwd, procVars, tasks, lockVars, panic,
                 pexec, psig, viaCancel, nsent, nowDone, nowSent, cancelFirst,
                 midExec>>

\* The goroutine of Now(): t.after <- struct{}{}.  It blocks until a receiver
\* or buffer room is there; on a closed channel the send panics.
NowSend(t) ==
  /\ panic = "none"
  /\ nowq[t] > 0
  /\ nowq' = [nowq EXCEPT ![t] = @ - 1]
  /\ IF chans[after[t]].closed
     THEN /\ panic' = "send on closed channel"
          /\ UNCHANGED <<pc, psig, chans, nowDone, nowSent>>
     ELSE /\ CanSend(after[t])
          /\ Send(after[t], pc)
          /\ nowDone' = [nowDone EXCEPT ![t] = @ + 1]
          /\ nowSent' = [nowSent EXCEPT ![after[t]] = @ + 1]
          /\ panic' = panic
  /\ UNCHANGED <<taskVars, nchans, fwd, rt, pidx, tasks, lockVars,
                 pexec, viaCancel, nsent, nowCalls, cancelFirst,
                 midExec>>

\* CloseCancel that also ends the callbacks of the Task that are executing.
RECURSIVE CloseCancelInterrupts(_, _)
CloseCancelInterrupts(ts, st) ==
  IF ts = << >> \/ st.panic # "none" THEN st
  ELSE LET t == Head(ts) IN
       IF st.cancelchan[t] = "closed"
       THEN [st EXCEPT !.panic = "close of closed channel"]
       ELSE CloseCancelInterrupts(Tail(ts),
              [st EXCEPT
                 !.closed = @ + 1,
                 !.cancelchan[t] = "closed",
                 !.pc = [p \in Procs |->
                           IF rt[p] = t /\ st.pc[p] = "parked" THEN "wake_cancel"
                           ELSE IF rt[p] = t /\ st.pc[p] = "callback" THEN "done"
                           ELSE st.pc[p]],
                 !.cancelFirst[t] = /\ after[t] # NIL
                                    /\ ~chans[after[t]].arrived
                                    /\ NowSenders(after[t]) = {}])

\* CloseCancel marking the channel closed without releasing the goroutines
\* parked in Run's select on it.
RECURSIVE CloseCancelLeavesParked(_, _)
CloseCancelLeavesParked(ts, st) ==
  IF ts = << >> \/ st.panic # "none" THEN st
  ELSE LET t == Head(ts) IN
       IF st.cancelchan[t] = "closed"
       THEN [st EXCEPT !.panic = "close of closed channel"]
       ELSE CloseCancelLeavesParked(Tail(ts),
              [st EXCEPT
                 !.closed = @ + 1,
                 !.cancelchan[t] = "closed",
                 !.cancelFirst[t] = /\ after[t] # NIL
                                    /\ ~chans[after[t]].arrived
                                    /\ NowSenders(after[t]) = {}])

\* close(t.cancelchan) for every Task of the sequence ts, in that order, as
\* the record [cancelchan, pc, cancelFirst, midExec, panic, closed] after it (closed
\* counts the channels closed).  Closing a closed channel panics; closing an
\* open one releases the goroutines parked in Run's select on it, which will
\* return.
RECURSIVE CloseCancel(_, _)
CloseCancel(ts, st) ==
  IF ts = << >> \/ st.panic # "none" THEN st
  ELSE LET t == Head(ts) IN
       IF st.cancelchan[t] = "closed"
       THEN [st EXCEPT !.panic = "close of closed channel"]
       ELSE CloseCancel(Tail(ts),
              [st EXCEPT
                 !.closed = @ + 1,
                 !.cancelchan[t] = "closed",
                 !.midExec = [p \in Procs |->
                                @[p] \/ (rt[p] = t /\ st.pc[p] = "callback")],
                 !.pc = [p \in Procs |->
                           IF rt[p] = t /\ st.pc[p] = "parked"
                           THEN "wake_cancel" ELSE st.pc[p]],
                 !.cancelFirst[t] = /\ after[t] # NIL
                                    /\ ~chans[after[t]].arrived
                                    /\ NowSenders(after[t]) = {}])

CancelState == [cancelchan |-> cancelchan, pc |-> pc, cancelFirst |-> cancelFirst,
                midExec |-> midExec,
                panic |-> panic, closed |-> 0]

\* t.Cancel()
TaskCancel(ts) ==
  LET st == CloseCancel(ts, CancelState) IN
  /\ cancelchan' = st.cancelchan
  /\ pc' = st.pc
  /\ cancelFirst' = st.cancelFirst
  /\ midExec' = st.midExec
  /\ panic' = st.panic

Cancel(t) ==
  /\ panic = "none"
  /\ Made(t)
  /\ TaskCancel(<<t>>)
  /\ UNCHANGED <<ntasks, after, listeners, once, running, chanVars, rt, pidx, tasks,
                 lockVars, pexec, psig, viaCancel, nsent, nowCalls, nowDone, nowSent>>

\* t.Run() is called, on a goroutine of its own (go task.Run()) or by the
\* caller; the lowest free goroutine takes it.
FreeProcs == {p \in Procs : pc[p] = "idle"}
LowestFree == CHOOSE p \in FreeProcs : \A q \in FreeProcs : p <= q
Run(t) ==
  /\ panic = "none"
  /\ Made(t)
  /\ FreeProcs # {}
  /\ pc' = [pc EXCEPT ![LowestFree] = "start"]
  /\ rt' = [rt EXCEPT ![LowestFree] = t]
  /\ UNCHANGED <<taskVars, chanVars, pidx, tasks, lockVars, panic, histVars>>

\* Run, lines 144-147: if t.after == nil { t.exec(); return }; else the loop.
RunEnter(p) ==
  /\ panic = "none"
  /\ pc[p] = "start"
  /\ after[rt[p]] = NIL => Budget(rt[p])
  /\ pc' = [pc EXCEPT ![p] = IF after[rt[p]] = NIL THEN "exec" ELSE "select"]
  /\ UNCHANGED <<taskVars, chanVars, rt, pidx, tasks, lockVars, panic, histVars>>

\* select, case _, opened := <-t.cancelchan with opened == false: return.
RunSelectCancel(p) ==
  /\ panic = "none"
  /\ pc[p] = "select"
  /\ cancelchan[rt[p]] = "closed"
  /\ pc' = [pc EXCEPT ![p] = "done"]
  /\ viaCancel' = [viaCancel EXCEPT ![p] = TRUE]
  /\ UNCHANGED <<taskVars, chanVars, rt, pidx, tasks, lockVars, panic,
                 pexec, psig, nsent, nowCalls, nowDone, nowSent, cancelFirst,
                 midExec>>

\* select, case <-t.after, ready at once: a buffered value, the zero value of
\* a closed channel, or the value of a Now() goroutine blocked in its send.
RunSelectAfter(p) ==
  LET t == rt[p]
      c == after[t] IN
  /\ panic = "none"
  /\ pc[p] = "select"
  /\ Budget(t)
  /\ pc' = [pc EXCEPT ![p] = "exec"]
  /\ IF chans[c].len > 0
     THEN /\ chans' = [chans EXCEPT ![c].len = @ - 1]
          /\ psig' = [psig EXCEPT ![p] = @ + 1]
          /\ UNCHANGED <<nowq, nowDone, nowSent>>
     ELSE IF chans[c].closed
     THEN UNCHANGED <<chans, psig, nowq, nowDone, nowSent>>
     ELSE /\ chans[c].cap = 0
          /\ \E u \in NowSenders(c) :
               /\ nowq' = [nowq EXCEPT ![u] = @ - 1]
               /\ nowDone' = [nowDone EXCEPT ![u] = @ + 1]
          /\ nowSent' = [nowSent EXCEPT ![c] = @ + 1]
          /\ psig' = [psig EXCEPT ![p] = @ + 1]
          /\ chans' = [chans EXCEPT ![c].arrived = TRUE]
  /\ UNCHANGED <<taskVars, nchans, fwd, rt, pidx, tasks, lockVars, panic,
                 pexec, viaCancel, nsent, nowCalls, cancelFirst,
                 midExec>>

\* RunPark with the cancel case left out of the select: the goroutine parks
\* on t.after alone, whatever t.cancelchan is.
RunParkWithoutCancelCase(p) ==
  /\ panic = "none"
  /\ pc[p] = "select"
  /\ ~RecvReady(after[rt[p]])
  /\ Budget(rt[p])
  /\ pc' = [pc EXCEPT ![p] = "parked"]
  /\ UNCHANGED <<taskVars, chanVars, rt, pidx, tasks, lockVars, panic, histVars>>

\* select with no case ready: the goroutine parks on both channels.
RunPark(p) ==
  /\ panic = "none"
  /\ pc[p] = "select"
  /\ cancelchan[rt[p]] = "open"
  /\ ~RecvReady(after[rt[p]])
  /\ Budget(rt[p])
  /\ pc' = [pc EXCEPT ![p] = "parked"]
  /\ UNCHANGED <<taskVars, chanVars, rt, pidx, tasks, lockVars, panic, histVars>>

\* A goroutine released by close(t.cancelchan) returns from Run.
RunWakeCancel(p) ==
  /\ panic = "none"
  /\ pc[p] = "wake_cancel"
  /\ pc' = [pc EXCEPT ![p] = "done"]
  /\ viaCancel' = [viaCancel EXCEPT ![p] = TRUE]
  /\ UNCHANGED <<taskVars, chanVars, rt, pidx, tasks, lockVars, panic,
                 pexec, psig, nsent, nowCalls, nowDone, nowSent, cancelFirst,
                 midExec>>

\* exec publishing to the first outlet before it invokes the callback.
ExecBeginPublishesFirst(p) ==
  /\ panic = "none"
  /\ pc[p] = "exec"
  /\ running' = [running EXCEPT ![rt[p]] = TRUE]
  /\ pexec' = [pexec EXCEPT ![p] = @ + 1]
  /\ IF listeners[rt[p]] # << >> /\ CanSend(listeners[rt[p]][1])
     THEN Send(listeners[rt[p]][1], [pc EXCEPT ![p] = "callback"])
     ELSE pc' = [pc EXCEPT ![p] = "callback"] /\ UNCHANGED <<psig, chans>>
  /\ UNCHANGED <<ntasks, cancelchan, after, listeners, once, nchans, fwd, nowq, rt,
                 pidx, tasks, lockVars, panic, viaCancel, nsent, nowCalls, nowDone,
                 nowSent, cancelFirst,
                 midExec>>

\* exec, lines 165-167: running = true, runStart = now, the callback starts.
ExecBegin(p) ==
  /\ panic = "none"
  /\ pc[p] = "exec"
  /\ running' = [running EXCEPT ![rt[p]] = TRUE]
  /\ pexec' = [pexec EXCEPT ![p] = @ + 1]
  /\ pc' = [pc EXCEPT ![p] = "callback"]
  /\ UNCHANGED <<ntasks, cancelchan, after, listeners, once, chanVars, rt, pidx,
                 tasks, lockVars, panic, psig, viaCancel, nsent, nowCalls, nowDone, nowSent, cancelFirst,
                 midExec>>

\* exec, lines 167-168: the callback returns, running = false.
CallbackReturn(p) ==
  /\ panic = "none"
  /\ pc[p] = "callback"
  /\ running' = [running EXCEPT ![rt[p]] = FALSE]
  /\ pidx' = [pidx EXCEPT ![p] = 1]
  /\ pc' = [pc EXCEPT ![p] = "publish"]
  /\ UNCHANGED <<ntasks, cancelchan, after, listeners, once, chanVars, rt,
                 tasks, lockVars, panic, histVars>>

\* Publish with a blocking send, l <- true: it waits for room or a receiver.
PublishBlocking(p) ==
  /\ panic = "none"
  /\ pc[p] = "publish"
  /\ pidx[p] <= Len(listeners[rt[p]])
  /\ CanSend(listeners[rt[p]][pidx[p]])
  /\ pidx' = [pidx EXCEPT ![p] = @ + 1]
  /\ Send(listeners[rt[p]][pidx[p]], pc)
  /\ UNCHANGED <<taskVars, nchans, fwd, nowq, rt, tasks, lockVars, panic,
                 pexec, viaCancel, nsent, nowCalls, nowDone, nowSent, cancelFirst,
                 midExec>>

\* Publish whose select always takes the default case: nothing is sent.
PublishTakesDefault(p) ==
  /\ panic = "none"
  /\ pc[p] = "publish"
  /\ pidx[p] <= Len(listeners[rt[p]])
  /\ pidx' = [pidx EXCEPT ![p] = @ + 1]
  /\ UNCHANGED <<taskVars, chanVars, pc, rt, tasks, lockVars, panic, histVars>>

\* exec, lines 169-174, one turn of the loop: select { case l <- true: default: }.
Publish(p) ==
  LET l == listeners[rt[p]][pidx[p]] IN
  /\ panic = "none"
  /\ pc[p] = "publish"
  /\ pidx[p] <= Len(listeners[rt[p]])
  /\ pidx' = [pidx EXCEPT ![p] = @ + 1]
  /\ IF CanSend(l) THEN Send(l, pc) ELSE UNCHANGED <<pc, psig, chans>>
  /\ UNCHANGED <<taskVars, nchans, fwd, nowq, rt, tasks, lockVars, panic,
                 pexec, viaCancel, nsent, nowCalls, nowDone, nowSent, cancelFirst,
                 midExec>>

\* ExecReturn with the return after t.exec() of the no-trigger path left out:
\* Run falls into the wait loop.
ExecReturnFallsThrough(p) ==
  /\ panic = "none"
  /\ pc[p] = "publish"
  /\ pidx[p] > Len(listeners[rt[p]])
  /\ pidx' = [pidx EXCEPT ![p] = 0]
  /\ pc' = [pc EXCEPT ![p] = IF once[rt[p]] THEN "done" ELSE "select"]
  /\ UNCHANGED <<taskVars, chanVars, rt, tasks, lockVars, panic, histVars>>

\* ExecReturn with the test of t.once left out: the loop always goes on.
ExecReturnIgnoresOnce(p) ==
  /\ panic = "none"
  /\ pc[p] = "publish"
  /\ pidx[p] > Len(listeners[rt[p]])
  /\ pidx' = [pidx EXCEPT ![p] = 0]
  /\ pc' = [pc EXCEPT ![p] = IF after[rt[p]] = NIL THEN "done" ELSE "select"]
  /\ UNCHANGED <<taskVars, chanVars, rt, tasks, lockVars, panic, histVars>>

\* exec returns to Run: Run returns (no trigger, or once), or loops.
ExecReturn(p) ==
  /\ panic = "none"
  /\ pc[p] = "publish"
  /\ pidx[p] > Len(listeners[rt[p]])
  /\ pidx' = [pidx EXCEPT ![p] = 0]
  /\ pc' = [pc EXCEPT ![p] = IF after[rt[p]] = NIL \/ once[rt[p]]
                              THEN "done" ELSE "select"]
  /\ UNCHANGED <<taskVars, chanVars, rt, tasks, lockVars, panic, histVars>>

\* ------------------------------------------------------------ Runner
\* The critical sections of the Runner hold no blocking operation, so each
\* method is one step taken with r.mu held.  Run, Get and All unlock in a
\* defer; Add, Cancel and CancelAll unlock in their last statement, which a
\* panic inside the critical section never reaches.
Registered == {n \in Names : tasks[n] # NIL}

\* r.Add that cancels the Task it replaces.
RunnerAddCancelsPrevious(n) ==
  /\ panic = "none"
  /\ ntasks < MaxTasks
  /\ ntasks' = ntasks + 1
  /\ tasks' = [tasks EXCEPT ![n] = ntasks + 1]
  /\ IF tasks[n] # NIL /\ cancelchan[tasks[n]] = "open"
     THEN /\ TaskCancel(<<tasks[n]>>)
          /\ UNCHANGED <<after, listeners, once, running, chanVars, rt, pidx, lockVars,
                         pexec, psig, viaCancel, nsent, nowCalls, nowDone, nowSent>>
     ELSE UNCHANGED <<cancelchan, after, listeners, once, running, chanVars, procVars,
                      lockVars, panic, histVars>>

\* r.Add(name, f): t := NewTask(f); r.tasks[name] = t.
RunnerAdd(n) ==
  /\ panic = "none"
  /\ ntasks < MaxTasks
  /\ ntasks' = ntasks + 1
  /\ tasks' = [tasks EXCEPT ![n] = ntasks + 1]
  /\ UNCHANGED <<cancelchan, after, listeners, once, running, chanVars, procVars,
                 lockVars, panic, histVars>>

\* The k lowest free goroutines, in increasing order.
RECURSIVE LowestOf(_, _)
LowestOf(S, k) ==
  IF k = 0 THEN << >>
  ELSE LET m == CHOOSE p \in S : \A q \in S : p <= q
       IN <<m>> \o LowestOf(S \ {m}, k - 1)

\* The orders in which a range over the map may visit the names of S.
Orders(S) ==
  {o \in [1..Cardinality(S) -> S] : \A i, j \in DOMAIN o : i # j => o[i] # o[j]}

\* r.Run() returning after the first task of the range.
RunnerRunFirstOnly ==
  /\ panic = "none"
  /\ Registered # {}
  /\ FreeProcs # {}
  /\ \E n \in Registered :
       /\ pc' = [pc EXCEPT ![LowestFree] = "start"]
       /\ rt' = [rt EXCEPT ![LowestFree] = tasks[n]]
  /\ UNCHANGED <<taskVars, chanVars, pidx, tasks, lockVars, panic, histVars>>

\* r.Run(): for _, task := range r.tasks { go task.Run() }
RunnerRun ==
  /\ panic = "none"
  /\ Registered # {}
  /\ Cardinality(FreeProcs) >= Cardinality(Registered)
  /\ \E o \in Orders(Registered) :
       LET ps == LowestOf(FreeProcs, Cardinality(Registered))
           At(p) == CHOOSE i \in DOMAIN ps : ps[i] = p
           Mine == {ps[i] : i \in DOMAIN ps}
       IN /\ pc' = [p \in Procs |-> IF p \in Mine THEN "start" ELSE pc[p]]
          /\ rt' = [p \in Procs |-> IF p \in Mine THEN tasks[o[At(p)]] ELSE rt[p]]
  /\ UNCHANGED <<taskVars, chanVars, pidx, tasks, lockVars, panic, histVars>>

\* r.Cancel(name) without the delete: the cancelled Task stays registered.
RunnerCancelKeepsEntry(n) ==
  /\ panic = "none"
  /\ IF tasks[n] # NIL
     THEN /\ TaskCancel(<<tasks[n]>>)
          /\ tasks' = tasks
          /\ mu' = IF panic' # "none" THEN "locked" ELSE "unlocked"
     ELSE UNCHANGED <<cancelchan, pc, cancelFirst, midExec, panic, tasks, mu>>
  /\ UNCHANGED <<ntasks, after, listeners, once, running, chanVars, rt, pidx,
                 shared, seen,
                 pexec, psig, viaCancel, nsent, nowCalls, nowDone, nowSent>>

\* r.Cancel(name): if t, ok := r.tasks[name]; ok { t.Cancel(); delete(...) }
RunnerCancel(n) ==
  /\ panic = "none"
  /\ IF tasks[n] # NIL
     THEN /\ TaskCancel(<<tasks[n]>>)
          /\ tasks' = IF panic' # "none" THEN tasks ELSE [tasks EXCEPT ![n] = NIL]
          /\ mu' = IF panic' # "none" THEN "locked" ELSE "unlocked"
     ELSE UNCHANGED <<cancelchan, pc, cancelFirst, midExec, panic, tasks, mu>>
  /\ UNCHANGED <<ntasks, after, listeners, once, running, chanVars, rt, pidx,
                 shared, seen,
                 pexec, psig, viaCancel, nsent, nowCalls, nowDone, nowSent>>

\* r.CancelAll(): for name, t := range r.tasks { t.Cancel(); delete(...) }
RunnerCancelAll ==
  /\ panic = "none"
  /\ \E o \in Orders(Registered) :
       LET ts == [i \in DOMAIN o |-> tasks[o[i]]]
           st == CloseCancel(ts, CancelState)
       IN /\ TaskCancel(ts)
          /\ tasks' = [n \in Names |->
                         IF \E i \in 1..st.closed : o[i] = n THEN NIL ELSE tasks[n]]
          /\ mu' = IF st.panic # "none" THEN "locked" ELSE "unlocked"
  /\ UNCHANGED <<ntasks, after, listeners, once, running, chanVars, rt, pidx,
                 shared, seen,
                 pexec, psig, viaCancel, nsent, nowCalls, nowDone, nowSent>>

\* r.Get(name)
RunnerGet(n) == tasks[n]

\* r.All(): return r.tasks, the map of the Runner itself; the caller keeps it.
RunnerAll ==
  /\ panic = "none"
  /\ ~shared
  /\ shared' = TRUE
  /\ seen' = tasks
  /\ UNCHANGED <<taskVars, chanVars, procVars, tasks, mu, panic, histVars>>

\* What the caller reads in the map that All() returned.
AllResult == tasks

\* ------------------------------------------------------ specifications
ChanCaps == {0, 1}
\* Element types of the callers' channels: interface{}, or any other type.
ChanKinds == {"iface", "typed"}

\* The steps of the goroutine p inside Task.Run.
ProcStep(p) ==
  \/ RunEnter(p)
  \/ RunSelectCancel(p)
  \/ RunSelectAfter(p)
  \/ RunPark(p)
  \/ RunWakeCancel(p)
  \/ ExecBegin(p)
  \/ CallbackReturn(p)
  \/ Publish(p)
  \/ ExecReturn(p)

\* One Task, one channel (the caller's, or an outlet of the Task itself) and
\* the whole Task interface.
Next ==
  \/ \E k \in ChanCaps : nchans < SoloChans /\ MakeChan("iface", k)
  \/ \E c \in Chans : UserSend(c)
  \/ \E c \in Chans : UserClose(c)
  \/ ntasks < SoloTasks /\ NewTask
  \/ \E t \in Tasks, c \in Chans : After(t, c)
  \/ \E t \in Tasks : Once(t)
  \/ \E t \in Tasks : nchans < SoloChans /\ Subscribe(t)
  \/ \E t \in Tasks : Now(t)
  \/ \E t \in Tasks : NowSend(t)
  \/ \E t \in Tasks : Cancel(t)
  \/ \E t \in Tasks : Run(t)
  \/ \E p \in Procs : ProcStep(p)

Spec == Init /\ [][Next]_vars

\* The scheduler runs every goroutine that can take a step, and every
\* callback that was started returns.
ProcFairness == \A p \in Procs : WF_vars(ProcStep(p))
\* A select whose cancel case is ready again and again takes it at some time.
SelectFairness == \A p \in Procs : SF_vars(RunSelectCancel(p))
NowFairness == \A t \in Tasks : WF_vars(NowSend(t))
FwdFairness == \A c \in Chans : WF_vars(FwdRecv(c)) /\ WF_vars(FwdSend(c))

FairSpec == Spec /\ ProcFairness /\ SelectFairness /\ NowFairness

\* Two Tasks chained through outlets: Subscribe, After, Once, Cancel, Run.
NextChain ==
  \/ NewTask
  \/ \E t \in Tasks, c \in Chans : After(t, c)
  \/ \E t \in Tasks : Once(t)
  \/ \E t \in Tasks : Subscribe(t)
  \/ \E t \in Tasks : Cancel(t)
  \/ \E t \in Tasks : Run(t)
  \/ \E p \in Procs : ProcStep(p)

SpecChain == Init /\ [][NextChain]_vars
FairSpecChain == SpecChain /\ ProcFairness

\* One Task triggered through Wrap by a source of any element type (or by an
\* outlet, which Wrap returns as it is).
NextWrap ==
  \/ \E kind \in ChanKinds, k \in ChanCaps : nchans < SoloChans /\ MakeChan(kind, k)
  \/ \E c \in Chans : UserSend(c)
  \/ \E c \in Chans : UserClose(c)
  \/ \E c \in Chans : FwdRecv(c)
  \/ \E c \in Chans : FwdSend(c)
  \/ ntasks < SoloTasks /\ NewTask
  \/ \E t \in Tasks, c \in Chans : After(t, c)
  \/ \E t \in Tasks : Once(t)
  \/ \E t \in Tasks : nchans < SoloChans /\ Subscribe(t)
  \/ \E t \in Tasks : Now(t)
  \/ \E t \in Tasks : NowSend(t)
  \/ \E t \in Tasks : Cancel(t)
  \/ \E t \in Tasks : Run(t)
  \/ \E p \in Procs : ProcStep(p)

SpecWrap == Init /\ [][NextWrap]_vars
FairSpecWrap == SpecWrap /\ ProcFairness /\ NowFairness /\ FwdFairness

\* The Runner with the Tasks it constructs, configured through the Task that
\* Add returns (chained through one outlet), and cancelled through the Runner
\* or directly.
NextRunner ==
  \/ \E t \in Tasks, c \in Chans : After(t, c)
  \/ \E t \in Tasks : Once(t)
  \/ \E t \in Tasks : nchans < SoloChans /\ Subscribe(t)
  \/ \E t \in Tasks : Cancel(t)
  \/ \E n \in Names : RunnerAdd(n)
  \/ RunnerRun
  \/ \E n \in Names : RunnerCancel(n)
  \/ RunnerCancelAll
  \/ \E p \in Procs : ProcStep(p)

SpecRunner == Init /\ [][NextRunner]_vars
FairSpecRunner == SpecRunner /\ ProcFairness

\* The Runner alone: Tasks are constructed by Add, configured through the
\* Task that Add returns, started by Run and cancelled through the Runner
\* only; one caller keeps the map that All() returned.
NextRegistry ==
  \/ \E t \in Tasks, c \in Chans : After(t, c)
  \/ \E t \in Tasks : Once(t)
  \/ \E t \in Tasks : nchans < SoloChans /\ Subscribe(t)
  \/ \E n \in Names : RunnerAdd(n)
  \/ RunnerRun
  \/ \E n \in Names : RunnerCancel(n)
  \/ RunnerCancelAll
  \/ RunnerAll
  \/ \E p \in Procs : ProcStep(p)

SpecRegistry == Init /\ [][NextRegistry]_vars
FairSpecRegistry == SpecRegistry /\ ProcFairness

\* ------------------------------------------------------------ claims
\* The Run() calls of Tasks with, and without, a trigger source.
Calls == {p \in Procs : rt[p] # NIL}
Triggered(p) == after[rt[p]] # NIL

\* C1: a Run() call of a Task with no trigger source never enters the wait
\* loop and never receives anything; it has not invoked the callback before
\* exec starts and has invoked it exactly once from then on, so exactly once
\* when Run() has returned, whatever once and cancelchan are.
C1_NoTriggerRunsOnce ==
  \A p \in Calls : ~Triggered(p) =>
    /\ pc[p] \in {"start", "exec", "callback", "publish", "done"}
    /\ pc[p] \in {"start", "exec"} => pexec[p] = 0
    /\ pc[p] \in {"callback", "publish", "done"} => pexec[p] = 1
    /\ psig[p] = 0 /\ ~viaCancel[p]

\* Two Run() calls of a once Task with no trigger have returned, each after
\* one execution.
C1_Witness ==
  \E t \in Tasks :
    /\ once[t] /\ after[t] = NIL
    /\ \A p \in Procs : rt[p] = t /\ pc[p] = "done" /\ pexec[p] = 1

\* C2: a Run() call of a once Task with a trigger source invokes the callback
\* at most once and receives at most one signal; after the invocation it does
\* not go back to the wait loop, and when it has returned otherwise than by
\* cancellation it has invoked the callback exactly once.
C2_OnceRunsOnce ==
  \A p \in Calls : Triggered(p) /\ once[rt[p]] =>
    /\ pexec[p] <= 1 /\ psig[p] <= 1
    /\ pexec[p] = 1 => pc[p] \in {"callback", "publish", "done"}
    /\ pc[p] = "done" /\ ~viaCancel[p] => pexec[p] = 1

\* A once Run() has returned after one execution and a further signal is
\* left in the trigger source.
C2_Witness ==
  \E p \in Calls :
    /\ Triggered(p) /\ once[rt[p]]
    /\ pc[p] = "done" /\ ~viaCancel[p] /\ pexec[p] = 1
    /\ chans[after[rt[p]]].len = 1 /\ nsent[after[rt[p]]] = 2

\* C3: a Run() call of a Task with a trigger source and without once has
\* invoked the callback (or is about to) as many times as it has received a
\* signal on t.after.
C3_ExecsEqualSignals ==
  \A p \in Calls : Triggered(p) /\ ~once[rt[p]] =>
    pexec[p] + (IF pc[p] = "exec" THEN 1 ELSE 0) = psig[p]

\* Cancel() was invoked on the Task of p before anything had arrived on its
\* trigger source (cancelFirst), and nothing has arrived since: no value, no
\* close, no Now() goroutine about to send.
NothingArrived(p) ==
  /\ rt[p] # NIL /\ Triggered(p)
  /\ cancelFirst[rt[p]]
  /\ ~chans[after[rt[p]]].arrived
  /\ NowSenders(after[rt[p]]) = {}

Chained(t1, t2) ==
  \E i \in DOMAIN listeners[t1] : listeners[t1][i] = after[t2]

\* The chaining scenario at the call of t2.Run() by p: t2 is a once Task, not
\* cancelled, chained to another Task t1 of which a Run() has returned after
\* an execution; every other Run() call has returned, none of them having
\* received from the outlet.
ChainReady(p) ==
  /\ pc[p] = "start" /\ Triggered(p)
  /\ once[rt[p]] /\ cancelchan[rt[p]] = "open"
  /\ \E q \in Procs \ {p} :
       /\ rt[q] # NIL /\ rt[q] # rt[p] /\ Chained(rt[q], rt[p])
       /\ pc[q] = "done" /\ pexec[q] >= 1
  /\ \A r \in Procs \ {p} :
       /\ pc[r] = "done"
       /\ after[rt[r]] = after[rt[p]] => psig[r] = 0

\* C5: in the chaining scenario the completion signal of t1 is waiting in the
\* outlet when t2.Run() is called, and t2.Run() returns after exactly one
\* execution of the callback (unless t2 is cancelled meanwhile or the process
\* is aborted).
C5_ChainedRunsOnce ==
  /\ [](\A p \in Procs : ChainReady(p) => chans[after[rt[p]]].len = 1)
  /\ \A p \in Procs :
       ChainReady(p) ~> \/ pc[p] = "done" /\ pexec[p] = 1 /\ psig[p] = 1 /\ ~viaCancel[p]
                        \/ rt[p] # NIL /\ cancelchan[rt[p]] = "closed"
                        \/ panic # "none"

\* t1 without a trigger has run, t2 chained to it and once has run after it,
\* each has executed once, and no Task was cancelled.
C5_Witness ==
  \E p, q \in Procs :
    /\ rt[p] # NIL /\ rt[q] # NIL /\ rt[p] # rt[q]
    /\ Chained(rt[q], rt[p]) /\ once[rt[p]] /\ after[rt[q]] = NIL
    /\ pc[q] = "done" /\ pexec[q] = 1
    /\ pc[p] = "done" /\ pexec[p] = 1 /\ ~viaCancel[p]
    /\ chans[after[rt[p]]].len = 0
    /\ \A t \in Tasks : cancelchan[t] = "open"

\* C6: Cancel() called a second time on a Task, directly or through
\* Runner.Cancel / CancelAll, does not abort the process.
C6_CancelIdempotent == panic # "close of closed channel"

\* The Run() calls that read channel r as their trigger source, the values
\* they have received from it, and the values that Now() goroutines sent on it.
Readers(r) == {p \in Calls : after[rt[p]] = r}
Received(r) == SumOver(psig, Readers(r))
Injected(r) == nowSent[r]

\* A source that Wrap has given a forwarding goroutine.
Wrapped(c) == fwd[c].pc # "none"
\* The values the forwarder has taken from the source c.
Taken(c) == nsent[c] - chans[c].len

Forwards(c) == fwd[c].pc = "send" /\ fwd'[c].pc = "recv"

BulkRun(p, q) ==
  /\ tasks["t1"] # NIL /\ tasks["t2"] # NIL
  /\ rt[p] = tasks["t1"] /\ rt[q] = tasks["t2"]
  /\ once[rt[p]] /\ once[rt[q]] /\ after[rt[p]] = NIL /\ after[rt[q]] = NIL
  /\ RunsOf(rt[p]) = {p} /\ RunsOf(rt[q]) = {q}

\* The goroutines that a step starts on the Task t.
Launched(t) == {p \in Procs : pc[p] = "idle" /\ pc'[p] = "start" /\ rt'[p] = t}

\* C8: Runner.Run() starts one goroutine on every registered Task; after it
\* has done so on two Once tasks added as t1 and t2, neither callback is ever
\* executed more than once, and at some time both goroutines have returned
\* with each callback executed exactly once, two executions in total (unless
\* Run() is called on one of the Tasks again, or the process is aborted).
C8_BulkRunExecutesBoth ==
  /\ [][(\E t \in Tasks : Launched(t) # {}) =>
          \A n \in Registered : Cardinality(Launched(tasks[n])) = 1]_vars
  /\ [](\A p, q \in Procs :
          BulkRun(p, q) => Execs(rt[p]) <= 1 /\ Execs(rt[q]) <= 1)
  /\ \A p \in Procs : \A q \in Procs \ {p} :
       BulkRun(p, q)
         ~> \/ /\ pc[p] = "done" /\ pc[q] = "done"
               /\ pexec[p] = 1 /\ pexec[q] = 1
               /\ Execs(rt[p]) + Execs(rt[q]) = 2
            \/ RunsOf(rt[p]) # {p} \/ RunsOf(rt[q]) # {q}
            \/ panic # "none"

\* Both goroutines of the bulk run have returned, the two callbacks between
\* them executed twice.
C8_Witness ==
  \E p, q \in Procs :
    /\ BulkRun(p, q)
    /\ pc[p] = "done" /\ pc[q] = "done"
    /\ Execs(rt[p]) = 1 /\ Execs(rt[q]) = 1

\* The Run() call p of a Task with a trigger source is inside its loop.
InLoop(p) ==
  /\ rt[p] # NIL /\ Triggered(p)
  /\ pc[p] \in {"select", "parked", "wake_cancel", "exec", "callback", "publish"}

\* C9: no Run() call stays parked in its select once cancelchan is closed, and
\* a Run() call that is inside its loop when cancelchan is closed returns at
\* some time (unless the process is aborted).
C9_CancelUnblocksRun ==
  /\ [](\A p \in Procs : pc[p] = "parked" => cancelchan[rt[p]] = "open")
  /\ \A p \in Procs :
       (InLoop(p) /\ cancelchan[rt[p]] = "closed")
         ~> (pc[p] = "done" \/ panic # "none")

\* Cancel() has released a Run() call that was parked in its select with
\* nothing received.
C9_Witness ==
  \E p \in Procs :
    /\ InLoop(p) /\ pc[p] = "wake_cancel" /\ psig[p] = 0
    /\ cancelchan[rt[p]] = "closed" /\ panic = "none"

\* C10: every Now() call on a Task with a trigger source has sent its one
\* signal or is still about to, the process is not aborted by it, and a Task
\* without a trigger source has no Now() goroutine.
C10_NowInjectsOneSignal ==
  \A t \in Tasks :
    /\ nowCalls[t] = nowq[t] + nowDone[t]
    /\ after[t] = NIL => nowCalls[t] = 0 /\ nowq[t] = 0
    /\ panic # "send on closed channel"

\* C11: a Runner.Cancel(name) step on a registered name closes the cancel
\* signal of that Task and removes the entry, with every other entry and
\* every other cancel signal as before; on an absent name it changes nothing;
\* a Runner.CancelAll() step closes the cancel signal of every registered
\* Task and leaves the registry empty.
C11_RunnerCancelFrame ==
  [][/\ \A n \in Names :
          RunnerCancel(n) =>
            IF tasks[n] # NIL
            THEN /\ panic' = "none"
                 /\ cancelchan'[tasks[n]] = "closed"
                 /\ tasks' = [tasks EXCEPT ![n] = NIL]
                 /\ \A t \in Tasks \ {tasks[n]} : cancelchan'[t] = cancelchan[t]
            ELSE tasks' = tasks /\ cancelchan' = cancelchan /\ panic' = panic
     /\ RunnerCancelAll =>
          /\ panic' = "none"
          /\ \A n \in Registered : cancelchan'[tasks[n]] = "closed"
          /\ \A n \in Names : tasks'[n] = NIL]_vars

\* C12: between two Runner methods r.mu is unlocked, whatever the goroutines
\* inside Task.Run are doing, and Cancel, CancelAll and All can be called; so
\* can Run when there are goroutines for the registered Tasks.
C12_RegistryLockReleased ==
  /\ mu = "unlocked"
  /\ panic = "none" =>
       /\ \A n \in Names : ENABLED RunnerCancel(n)
       /\ ENABLED RunnerCancelAll
       /\ (Registered # {} /\ Cardinality(FreeProcs) >= Cardinality(Registered))
            => ENABLED RunnerRun

\* The callback invocations of Task t that have returned.
Returned(t) ==
  Execs(t) - Cardinality({p \in RunsOf(t) : pc[p] = "callback"})

\* The outlets that Subscribe has handed out for Task t.
Outlets(t) == {listeners[t][i] : i \in DOMAIN listeners[t]}

\* C13: the completion signals that an outlet of a Task holds or has delivered
\* never outnumber the callback invocations of that Task that have returned;
\* exec goes back to Run only when every outlet has had its turn; and a Task
\* chained to an outlet of t1 has not started more callbacks than t1 has
\* finished (signals of Now() goroutines apart).
C13_PublishAfterCallback ==
  /\ [](\A t \in Tasks : \A l \in Outlets(t) :
          chans[l].len + Received(l) <= Returned(t) + Injected(l))
  /\ [](\A t1, t2 \in Tasks :
          Chained(t1, t2) => Execs(t2) <= Returned(t1) + Injected(after[t2]))
  /\ [][\A p \in Procs :
          (pc[p] = "publish" /\ pc'[p] # "publish")
            => pidx[p] > Len(listeners[rt[p]])]_vars

\* t2, chained to t1, is inside its callback for the completion of t1's one
\* callback invocation, while both Run() calls were running concurrently.
C13_Witness ==
  \E p, q \in Procs :
    /\ rt[p] # NIL /\ rt[q] # NIL /\ rt[p] # rt[q] /\ Chained(rt[p], rt[q])
    /\ pexec[p] = 1 /\ pc[p] = "publish"
    /\ psig[q] = 1 /\ pc[q] = "callback"

\* exec has finished its range over the outlets in the Run() call p.
Published(p) ==
  /\ rt[p] # NIL /\ pc[p] = "publish" /\ pidx[p] > Len(listeners[rt[p]])

\* C14, as stated: when exec has finished its range over the outlets, every
\* outlet of the Task holds exactly one pending completion signal.
C14_EveryOutletHoldsOne ==
  \A p \in Procs :
    Published(p) => \A l \in Outlets(rt[p]) : chans[l].len = 1

\* One turn of exec's range over the outlets, in the Run() call p.
Publishes(p) ==
  /\ pc[p] = "publish" /\ pidx[p] <= Len(listeners[rt[p]])
  /\ pidx'[p] = pidx[p] + 1

\* C14, amended.  An outlet has one slot and never holds more than one
\* signal; a turn of exec's range hands the signal to a Run() call parked on
\* the outlet when there is one, and otherwise leaves exactly one signal in
\* the outlet (added if it was empty, dropped if it was full); exec is never
\* blocked in its range; and when no Run() call reads the outlets, every
\* outlet holds exactly one signal after every execution.
C14_FanOutNeverBlocks ==
  /\ [](\A t \in Tasks : \A l \in Outlets(t) :
          chans[l].cap = 1 /\ chans[l].len <= 1)
  /\ [](\A p \in Procs :
          pc[p] = "publish" /\ panic = "none"
            => ENABLED (Publish(p) \/ ExecReturn(p)))
  /\ [](\A p \in Procs :
          (Published(p) /\ \A l \in Outlets(rt[p]) : Readers(l) = {})
            => \A l \in Outlets(rt[p]) : chans[l].len = 1)
  /\ [][\A p \in Procs :
          Publishes(p) =>
            LET l == listeners[rt[p]][pidx[p]] IN
            IF ParkedOn(l) # {}
            THEN /\ chans'[l].len = 0
                 /\ \E q \in ParkedOn(l) :
                      /\ pc'[q] = "exec"
                      /\ psig' = [psig EXCEPT ![q] = @ + 1]
            ELSE chans'[l].len = 1 /\ psig' = psig]_vars

\* Two executions of a Task whose outlet nobody reads have left exactly one
\* signal in the outlet: the second was dropped.
C14_Witness ==
  \E p \in Procs :
    /\ Published(p) /\ Execs(rt[p]) = 2
    /\ Outlets(rt[p]) # {}
    /\ \A l \in Outlets(rt[p]) : Readers(l) = {} /\ chans[l].len = 1

\* The values of the wrapped source c that the forwarder has dropped.
Dropped(c) ==
  Taken(c) - (IF fwd[c].pc = "send" THEN 1 ELSE 0)
    - (Received(fwd[c].out) - Injected(fwd[c].out))

InCallback(p) == rt[p] # NIL /\ pc[p] = "callback"

\* C16: no step takes a Run() call out of its callback but the return of the
\* callback itself, which resets running; a step that closes cancelchan
\* leaves the executions in progress, running and the outlets as they are; a
\* Run() call that has executed and is back in Run has offered a completion
\* to every outlet; and an execution in progress when cancelchan is closed
\* reaches the end of exec (unless the process is aborted).
C16_CancelDoesNotInterrupt ==
  /\ [][\A p \in Procs :
          InCallback(p) =>
            /\ pc'[p] \in {"callback", "publish"}
            /\ pc'[p] = "publish" => ~running'[rt[p]]
            /\ cancelchan'[rt[p]] # cancelchan[rt[p]] =>
                 /\ pc'[p] = "callback" /\ pexec'[p] = pexec[p]
                 /\ running' = running /\ chans' = chans]_vars
  /\ [](\A p \in Procs :
          (rt[p] # NIL /\ pexec[p] >= 1
             /\ pc[p] \in {"select", "parked", "wake_cancel", "done"})
            => \A l \in Outlets(rt[p]) : chans[l].len + Received(l) >= 1)
  /\ [](\A t \in Tasks :
          running[t] => \E p \in RunsOf(t) : pc[p] = "callback")
  /\ \A p \in Procs :
       (InCallback(p) /\ cancelchan[rt[p]] = "closed")
         ~> (Published(p) \/ panic # "none")

\* A Run() call during whose callback Cancel() was invoked has returned after
\* that execution, with running reset and the completion waiting in the outlet.
C16_Witness ==
  \E p \in Procs :
    /\ rt[p] # NIL /\ pc[p] = "done" /\ pexec[p] = 1 /\ midExec[p]
    /\ cancelchan[rt[p]] = "closed" /\ ~running[rt[p]] /\ panic = "none"
    /\ Outlets(rt[p]) # {}
    /\ \A l \in Outlets(rt[p]) : chans[l].len = 1

\* C17: the mapping that Runner.All() returned still has the content it had
\* when All() returned, whatever Add, Cancel and CancelAll have done since.
C17_AllReturnsSnapshot == shared => AllResult = seen

\* A Task that is in the registry under no name with its cancel signal open:
\* a later Add on its name has replaced it.
Replaced(t) ==
  /\ Made(t) /\ cancelchan[t] = "open"
  /\ \A n \in Names : tasks[n] # t

\* A step of one of the Runner's methods.
RegistryStep ==
  \/ \E n \in Names : RunnerAdd(n)
  \/ RunnerRun
  \/ \E n \in Names : RunnerCancel(n)
  \/ RunnerCancelAll

\* C18: Runner.Add closes no cancel signal and ends no Run() call, also on a
\* name that is registered; and no step of a Runner method closes the cancel
\* signal of a replaced Task or takes a Run() call of it out of its select.
C18_AddOverwritesWithoutCancel ==
  /\ [][\A n \in Names :
          RunnerAdd(n) => /\ cancelchan' = cancelchan /\ pc' = pc
                          /\ tasks'[n] # tasks[n] /\ panic' = "none"]_vars
  /\ [][RegistryStep =>
          \A t \in Tasks :
            Replaced(t) =>
              /\ cancelchan'[t] = "open"
              /\ \A p \in RunsOf(t) : pc'[p] = pc[p]]_vars

\* The Run() call of a replaced Task is still parked in its select after
\* CancelAll() has cancelled its successor and emptied the registry.
C18_Witness ==
  \E t \in Tasks, p \in Procs :
    /\ Replaced(t) /\ rt[p] = t /\ pc[p] = "parked"
    /\ Registered = {} /\ panic = "none"
    /\ \E u \in Tasks \ {t} : Made(u) /\ cancelchan[u] = "closed"

\* The values sent so far on the trigger source c: by its owner and by Now()
\* goroutines on a caller's channel, by the forwarder (at most what it has
\* taken from the wrapped source) and by Now() goroutines on a wrapped output.
SentOn(c) ==
  IF chans[c].kind = "real"
  THEN nowSent[c] + SumOver([s \in Chans |-> Taken(s)], {s \in Chans : fwd[s].out = c})
  ELSE nowSent[c] + nsent[c]

\* C19: a Task whose trigger source is a caller's channel, or the output of a
\* wrapped one, has not executed its callback more often than values were
\* sent on the trigger source.
C19_ExecutionsNeedValue ==
  \A t \in Tasks :
    (after[t] # NIL /\ chans[after[t]].kind \in {"iface", "real"})
      => Execs(t) <= SentOn(after[t])

\* C20: when Tasks are cancelled through the Runner only, every registered
\* Task has its cancel signal open and is registered under one name, the
\* lock is released after every method, and a cancel signal that is closed
\* stays closed with no step closing it again.
C20_RegistryClosesOnce ==
  /\ [](\A n \in Registered :
          /\ cancelchan[tasks[n]] = "open"
          /\ \A m \in Registered \ {n} : tasks[m] # tasks[n])
  /\ [](mu = "unlocked" /\ panic = "none")
  /\ [][\A t \in Tasks :
          cancelchan[t] = "closed" => cancelchan'[t] = "closed" /\ panic' = "none"]_vars

\* Both Tasks have been cancelled through the Runner, the registry is empty
\* and a Run() call has returned through its cancel case.
C20_Witness ==
  /\ ntasks = 2 /\ Registered = {} /\ panic = "none"
  /\ \A t \in Tasks : Made(t) => cancelchan[t] = "closed"
  /\ \E p \in Procs : pc[p] = "done" /\ viaCancel[p]

====
